---- MODULE Spec2Model ----
(***************************************************************************)
(* tfe_cleanup (src/src/main.rs): fetch the organizations of a Terraform   *)
(* Enterprise account, keep those whose last activity is older than 90     *)
(* days, write them to old_inactive_accounts.csv, ask the operator for     *)
(* confirmation and, if given, run `terraform workspace delete <name>` for *)
(* every record read back from that file.                                  *)
(*                                                                         *)
(* Text is modelled as a sequence of one-character strings, so that the    *)
(* CSV writer, the CSV reader, the RFC 3339 parser and the normalisation   *)
(* of the operator's answer are computed character by character.  Time is  *)
(* counted in whole seconds since 1970-01-01T00:00:00Z.                    *)
(***************************************************************************)
EXTENDS Integers, Sequences, FiniteSets, TLC

VARIABLES
    pc,                     \* position of main (or of the harness calling one function)
    visited,                \* run states entered so far, in order (history)
    conditions,             \* conditions of the environment met by this run (history)
    accounts_response,      \* main.rs:20  the JSON body of the listing response
    now,                    \* main.rs:56  the value Utc::now() returned
    old_inactive_accounts,  \* main.rs:27  result of filter_old_inactive_accounts
    file,                   \* the content of old_inactive_accounts.csv, or NoFile
    edited,                 \* the operator changed the file after it was written
    prompted,               \* main.rs:41  the prompt has been printed and flushed
    typed,                  \* the bytes supplied on standard input (history)
    stdin,                  \* bytes not yet read from standard input
    line,                   \* main.rs:88  user_input after read_line
    gate,                   \* what should_perform_cleanup returned
    rdr,                    \* main.rs:94  the records the reader has still to yield
    invocations,            \* main.rs:102 the terraform commands run so far
    log,                    \* lines printed to standard output
    result                  \* how main ended

vars == <<pc, visited, conditions, accounts_response, now, old_inactive_accounts,
          file, edited, prompted, typed, stdin, line, gate, rdr, invocations, log, result>>

(***************************************************************************)
(* Bounds of the model.                                                    *)
(***************************************************************************)
MaxAccounts == 2        \* accounts in one listing response
MaxInputLen == 4        \* bytes on standard input in the harness of the gate

(***************************************************************************)
(* Text helpers.                                                           *)
(***************************************************************************)
Missing == <<"<missing>">>    \* a JSON attribute that is absent or not a string
NoFile == <<"<no file>">>     \* the path does not exist
BadByte == "<0xFF>"         \* a byte that is not valid UTF-8

\* Option::unwrap_or("") on as_str()
UnwrapOrEmpty(v) ==
    IF v = Missing THEN <<>> ELSE v

RECURSIVE Concat(_)
Concat(ss) ==
    IF ss = <<>> THEN <<>> ELSE Head(ss) \o Concat(Tail(ss))

\* char::is_whitespace, on the characters the model uses
IsWhitespace(c) ==
    c \in {" ", "\n", "\t", "\r"}

\* char::to_lowercase, on the characters the model uses
LowerChar(c) ==
    CASE c = "Y" -> "y"
      [] c = "N" -> "n"
      [] c = "E" -> "e"
      [] c = "S" -> "s"
      [] OTHER -> c

ToLowercase(s) ==
    [i \in 1..Len(s) |-> LowerChar(s[i])]

\* str::trim: drop the leading and the trailing whitespace
Trim(s) ==
    LET keep == {i \in 1..Len(s) : ~IsWhitespace(s[i])}
    IN  IF keep = {} THEN <<>>
        ELSE LET lo == CHOOSE i \in keep : \A j \in keep : i <= j
                 hi == CHOOSE i \in keep : \A j \in keep : j <= i
             IN  SubSeq(s, lo, hi)

(***************************************************************************)
(* Confirmation gate: should_perform_cleanup (main.rs:87-91).              *)
(***************************************************************************)
\* BufRead::read_line: the bytes up to and including the first newline, or all
\* of them at end of stream; an error when they are not valid UTF-8, in which
\* case nothing is appended to the buffer.
ReadLine(input) ==
    LET nls == {i \in 1..Len(input) : input[i] = "\n"}
        n == IF nls = {} THEN Len(input)
             ELSE CHOOSE i \in nls : \A j \in nls : i <= j
        bytes == SubSeq(input, 1, n)
        valid == \A i \in 1..n : bytes[i] # BadByte
    IN  [ok |-> valid,
         text |-> IF valid THEN bytes ELSE <<>>,
         rest |-> SubSeq(input, n + 1, Len(input))]

\* The comparison of line 90, with two slips it could have: taking every
\* answer but "n" for a yes, and comparing without trimming.
IsYesDefaultsToYes(user_input) ==
    Trim(ToLowercase(user_input)) # <<"n">>

IsYesNoTrim(user_input) ==
    ToLowercase(user_input) = <<"y">>

IsYes(user_input) ==
    ToLowercase(Trim(user_input)) = <<"y">>

\* Result<bool, io::Error>: "true", "false" or "error"
ShouldPerformCleanup(input) ==
    LET r == ReadLine(input)
    IN  [value |-> IF ~r.ok THEN "error"
                   ELSE IF IsYes(r.text) THEN "true" ELSE "false",
         user_input |-> r.text,
         rest |-> r.rest]

(***************************************************************************)
(* Inactivity filter: filter_old_inactive_accounts (main.rs:54-70).        *)
(***************************************************************************)
Digits == {"0", "1", "2", "3", "4", "5", "6", "7", "8", "9"}

DigitVal(c) ==
    CASE c = "0" -> 0 [] c = "1" -> 1 [] c = "2" -> 2 [] c = "3" -> 3
      [] c = "4" -> 4 [] c = "5" -> 5 [] c = "6" -> 6 [] c = "7" -> 7
      [] c = "8" -> 8 [] c = "9" -> 9

\* the decimal number written at positions from..to of s
RECURSIVE Num(_, _, _)
Num(s, from, to) ==
    IF to < from THEN 0 ELSE Num(s, from, to - 1) * 10 + DigitVal(s[to])

AllDigits(s, from, to) ==
    \A i \in from..to : s[i] \in Digits

IsLeap(y) ==
    (y % 4 = 0 /\ y % 100 # 0) \/ y % 400 = 0

DaysInMonth(y, m) ==
    CASE m \in {1, 3, 5, 7, 8, 10, 12} -> 31
      [] m \in {4, 6, 9, 11} -> 30
      [] OTHER -> IF IsLeap(y) THEN 29 ELSE 28

\* days from 1970-01-01 to the civil date y-m-d (proleptic Gregorian)
DaysFromCivil(y, m, d) ==
    LET yy == IF m <= 2 THEN y - 1 ELSE y
        era == yy \div 400
        yoe == yy - era * 400
        mp == IF m > 2 THEN m - 3 ELSE m + 9
        doy == (153 * mp + 2) \div 5 + d - 1
        doe == yoe * 365 + yoe \div 4 - yoe \div 100 + doy
    IN  era * 146097 + doe - 719468

SecondsPerDay == 86400

\* DateTime::parse_from_rfc3339 on the forms YYYY-MM-DDTHH:MM:SSZ and
\* YYYY-MM-DDTHH:MM:SS+HH:MM / -HH:MM (no fraction of a second): the instant
\* the text denotes, in seconds since the epoch, or an error.
Rfc3339Fields(s) ==
    LET n == Len(s)
        shape == /\ n \in {20, 25}
                 /\ AllDigits(s, 1, 4) /\ s[5] = "-"
                 /\ AllDigits(s, 6, 7) /\ s[8] = "-"
                 /\ AllDigits(s, 9, 10) /\ s[11] = "T"
                 /\ AllDigits(s, 12, 13) /\ s[14] = ":"
                 /\ AllDigits(s, 15, 16) /\ s[17] = ":"
                 /\ AllDigits(s, 18, 19)
                 /\ IF n = 20 THEN s[20] = "Z"
                    ELSE /\ s[20] \in {"+", "-"}
                         /\ AllDigits(s, 21, 22) /\ s[23] = ":"
                         /\ AllDigits(s, 24, 25)
        y == Num(s, 1, 4)
        m == Num(s, 6, 7)
        d == Num(s, 9, 10)
        hh == Num(s, 12, 13)
        mi == Num(s, 15, 16)
        ss == Num(s, 18, 19)
        oh == IF n = 25 THEN Num(s, 21, 22) ELSE 0
        om == IF n = 25 THEN Num(s, 24, 25) ELSE 0
        sign == IF n = 25 /\ s[20] = "-" THEN -1 ELSE 1
        inRange == /\ m \in 1..12
                   /\ d >= 1 /\ d <= DaysInMonth(y, m)
                   /\ hh <= 23 /\ mi <= 59 /\ ss <= 59
                   /\ oh <= 23 /\ om <= 59
    IN  IF shape /\ inRange
        THEN [ok |-> TRUE,
              local |-> DaysFromCivil(y, m, d) * SecondsPerDay
                        + hh * 3600 + mi * 60 + ss,
              offset |-> sign * (oh * 3600 + om * 60)]
        ELSE [ok |-> FALSE, local |-> 0, offset |-> 0]

ParseRfc3339(s) ==
    LET f == Rfc3339Fields(s)
    IN  [ok |-> f.ok, instant |-> f.local - f.offset]

RetentionDays == 90

\* line 56: Utc::now() - Duration::days(90)
NinetyDaysAgo(utc_now) ==
    utc_now - RetentionDays * SecondsPerDay

\* lines 60-62: does the account go into the result?  With two slips it
\* could have: comparing with <=, and asking for a name.
IsOldInactiveNotStrict(account, ninety_days_ago) ==
    LET parsed == ParseRfc3339(UnwrapOrEmpty(account.last_activity_at))
    IN  parsed.ok /\ parsed.instant <= ninety_days_ago

IsOldInactiveNeedsName(account, ninety_days_ago) ==
    LET parsed == ParseRfc3339(UnwrapOrEmpty(account.last_activity_at))
    IN  account.name # Missing /\ parsed.ok /\ parsed.instant < ninety_days_ago

IsOldInactive(account, ninety_days_ago) ==
    LET last_activity == UnwrapOrEmpty(account.last_activity_at)
        parsed == ParseRfc3339(last_activity)
    IN  parsed.ok /\ parsed.instant < ninety_days_ago

\* lines 58-66: the loop over accounts_response["data"], pushing in order
RECURSIVE PushOldInactive(_, _)
PushOldInactive(accounts, ninety_days_ago) ==
    IF accounts = <<>> THEN <<>>
    ELSE LET rest == PushOldInactive(Tail(accounts), ninety_days_ago)
         IN  IF IsOldInactive(Head(accounts), ninety_days_ago)
             THEN <<Head(accounts)>> \o rest
             ELSE rest

\* A JSON body is [has_data |-> TRUE, data |-> <accounts>] when its "data"
\* member is an array, and [has_data |-> FALSE, data |-> <<>>] otherwise
\* (as_array() gives None).
FilterOldInactiveAccounts(response, utc_now) ==
    IF ~response.has_data THEN <<>>
    ELSE PushOldInactive(response.data, NinetyDaysAgo(utc_now))

(***************************************************************************)
(* Report writer: create_csv (main.rs:72-85), with csv::Writer's defaults: *)
(* delimiter ',', quote '"', a field quoted only when necessary, a quote   *)
(* inside a quoted field doubled, records terminated by "\n".              *)
(***************************************************************************)
Quote == "\""

NeedsQuotes(field) ==
    \E i \in 1..Len(field) : field[i] \in {",", Quote, "\n", "\r"}

RECURSIVE DoubleQuotes(_)
DoubleQuotes(field) ==
    IF field = <<>> THEN <<>>
    ELSE (IF Head(field) = Quote THEN <<Quote, Quote>> ELSE <<Head(field)>>)
         \o DoubleQuotes(Tail(field))

WriteField(field) ==
    IF NeedsQuotes(field)
    THEN <<Quote>> \o DoubleQuotes(field) \o <<Quote>>
    ELSE field

RECURSIVE JoinFields(_)
JoinFields(record) ==
    IF Len(record) = 1 THEN WriteField(record[1])
    ELSE WriteField(Head(record)) \o <<",">> \o JoinFields(Tail(record))

\* Writer::write_record: a record of one empty field is written as ""
WriteRecord(record) ==
    IF record = << <<>> >> THEN <<Quote, Quote, "\n">>
    ELSE JoinFields(record) \o <<"\n">>

HeaderRecord ==
    << <<"N", "a", "m", "e">>,
       <<"L", "a", "s", "t", " ", "A", "c", "t", "i", "v", "i", "t", "y">> >>

\* lines 77-80: the record of one account (and, first, with the two columns
\* in the wrong order)
AccountRecordSwapped(account) ==
    << UnwrapOrEmpty(account.last_activity_at), UnwrapOrEmpty(account.name) >>

AccountRecord(account) ==
    << UnwrapOrEmpty(account.name), UnwrapOrEmpty(account.last_activity_at) >>

\* lines 74-83: what the file holds once the writer is flushed
CsvText(accounts) ==
    WriteRecord(HeaderRecord)
    \o Concat([i \in 1..Len(accounts) |-> WriteRecord(AccountRecord(accounts[i]))])

(***************************************************************************)
(* csv::Reader with its defaults (main.rs:94, main.rs:186): delimiter ',',  *)
(* quote '"' doubled inside a quoted field, records ended by \n, \r or     *)
(* \r\n, empty lines skipped, has_headers(true), flexible(false).          *)
(***************************************************************************)
\* The reader's automaton: st is where it stands ("record": at the start of
\* a record, "field": at the start of a field, "plain": inside an unquoted
\* field, "quoted": inside a quoted field, "quote": after a quote met inside
\* a quoted field), field and record are what has been collected of the
\* current field and record, out the records completed so far.
ReaderStart ==
    [st |-> "record", field |-> <<>>, record |-> <<>>, out |-> <<>>]

EndField(r) ==
    [st |-> "field", field |-> <<>>, record |-> Append(r.record, r.field),
     out |-> r.out]

EndRecord(r) ==
    [st |-> "record", field |-> <<>>, record |-> <<>>,
     out |-> Append(r.out, Append(r.record, r.field))]

Collect(r, st, c) ==
    [r EXCEPT !.st = st, !.field = Append(r.field, c)]

\* one character read at the start of a field
StartField(r, c) ==
    IF c = Quote THEN [r EXCEPT !.st = "quoted"]
    ELSE IF c = "," THEN EndField(r)
    ELSE IF c \in {"\n", "\r"} THEN EndRecord(r)
    ELSE Collect(r, "plain", c)

\* one character read
ReadChar(r, c) ==
    CASE r.st = "record" ->
           IF c \in {"\n", "\r"} THEN r ELSE StartField(r, c)
      [] r.st = "field" ->
           StartField(r, c)
      [] r.st = "plain" ->
           IF c = "," THEN EndField(r)
           ELSE IF c \in {"\n", "\r"} THEN EndRecord(r)
           ELSE Collect(r, "plain", c)
      [] r.st = "quoted" ->
           IF c = Quote THEN [r EXCEPT !.st = "quote"]
           ELSE Collect(r, "quoted", c)
      [] r.st = "quote" ->
           IF c = Quote THEN Collect(r, "quoted", c)
           ELSE IF c = "," THEN EndField(r)
           ELSE IF c \in {"\n", "\r"} THEN EndRecord(r)
           ELSE Collect(r, "plain", c)

ReaderStates == {"record", "field", "plain", "quoted", "quote"}

\* the characters lo..hi of text read one after the other: the first half of
\* the range is read to its end before the second half is begun
RECURSIVE ReadRange(_, _, _, _)
ReadRange(r, text, lo, hi) ==
    IF lo > hi THEN r
    ELSE IF lo = hi THEN ReadChar(r, text[lo])
    ELSE LET mid == (lo + hi) \div 2
             left == ReadRange(r, text, lo, mid)
         IN  IF left.st \in ReaderStates
             THEN ReadRange(left, text, mid + 1, hi)
             ELSE left

\* every record of the file, the first one included; the end of the file
\* ends a record that was begun
AllRecords(text) ==
    LET r == ReadRange(ReaderStart, text, 1, Len(text))
    IN  IF r.st = "record" THEN r.out ELSE EndRecord(r).out

\* what the iterator yields for a record of the wrong number of fields
UnequalLengths == [ok |-> FALSE, fields |-> <<>>]

\* Reader::records(): the first record is taken as the header row and is not
\* yielded; a later record whose number of fields differs from the first
\* record's is yielded as an error.
Records(text) ==
    LET all == AllRecords(text)
    IN  [k \in 1..(Len(all) - 1) |->
            IF Len(all[k + 1]) = Len(all[1])
            THEN [ok |-> TRUE, fields |-> all[k + 1]]
            ELSE UnequalLengths]

(***************************************************************************)
(* The inputs the environment can supply.                                  *)
(***************************************************************************)
SeqsUpTo(S, n) ==
    UNION {[1..k -> S] : k \in 0..n}

TsOld ==
    <<"2", "0", "2", "0", "-", "0", "1", "-", "0", "1", "T",
      "0", "0", ":", "0", "0", ":", "0", "0", "Z">>
TsAtCutoff ==
    <<"2", "0", "2", "3", "-", "1", "0", "-", "0", "3", "T",
      "0", "0", ":", "0", "0", ":", "0", "0", "Z">>
TsOffsetOld ==
    <<"2", "0", "2", "3", "-", "1", "0", "-", "0", "3", "T",
      "0", "1", ":", "5", "9", ":", "5", "9", "+", "0", "2", ":", "0", "0">>
TsOffsetRecent ==
    <<"2", "0", "2", "3", "-", "1", "0", "-", "0", "2", "T",
      "2", "3", ":", "0", "0", ":", "0", "0", "-", "0", "2", ":", "0", "0">>
TsDateOnly ==
    <<"2", "0", "2", "0", "-", "0", "1", "-", "0", "1">>
TsBadDay ==
    <<"2", "0", "2", "3", "-", "0", "2", "-", "3", "0", "T",
      "0", "0", ":", "0", "0", ":", "0", "0", "Z">>

StampChoices ==
    {Missing, TsOld, TsAtCutoff, TsOffsetOld, TsOffsetRecent, TsDateOnly, TsBadDay}

NameChoices ==
    {Missing, <<"a">>, <<"b", ",", Quote>>}

\* 2024-01-01T00:00:00Z and one second later: the cutoff falls on TsAtCutoff
\* and one second after it
NowChoices ==
    {1704067200, 1704067201}

Account(name, last_activity_at) ==
    [name |-> name, last_activity_at |-> last_activity_at]

\* the accounts a listing response of the whole run is made of
AccountChoices ==
    {Account(<<"a">>, TsOld),
     Account(Missing, TsOld),
     Account(<<"b", ",", Quote>>, TsOffsetOld),
     Account(<<"c">>, TsAtCutoff),
     Account(<<"d">>, Missing),
     Account(<<"e">>, TsOffsetRecent),
     Account(<<>>, TsDateOnly)}

DataBody(accounts) ==
    [has_data |-> TRUE, data |-> accounts]

\* a JSON body without a "data" array, such as {"errors": [...]}
NoDataBody ==
    [has_data |-> FALSE, data |-> <<>>]

NoBody ==
    [has_data |-> FALSE, data |-> <<"<none>">>]

\* what the endpoint can answer: a status class and a body, the body being
\* JSON (its "data" member) or not
Answers ==
    [status : {"2xx"}, json : {TRUE},
     body : {NoDataBody} \cup {DataBody(a) : a \in SeqsUpTo(AccountChoices, MaxAccounts)}]
    \cup [status : {"non_2xx"}, json : {TRUE},
          body : {NoDataBody, DataBody(<<Account(<<"a">>, TsOld)>>)}]
    \cup [status : {"2xx", "non_2xx"}, json : {FALSE}, body : {NoBody}]

\* what the operator can type at the prompt
StdinChoices ==
    {<<"y", "\n">>, <<" ", "Y">>, <<"n", "\n">>, <<>>, <<"y", "e", "s", "\n">>,
     <<BadByte, "\n">>}

\* what the operator can do to the report while the prompt waits
DropFirstLine(text) ==
    LET nls == {i \in 1..Len(text) : text[i] = "\n"}
    IN  IF nls = {} THEN <<>>
        ELSE SubSeq(text, (CHOOSE i \in nls : \A j \in nls : i <= j) + 1, Len(text))

Edits(text) ==
    {DropFirstLine(text), text \o <<"z", "\n">>, NoFile}

(***************************************************************************)
(* main (main.rs:10-52) and perform_terraform_cleanup (main.rs:93-115).    *)
(* pc is the statement main stands at; visited lists the states of the run *)
(* (Fetching, Filtering, Reporting, AwaitingConfirmation, CleaningUp,      *)
(* Skipped, Done) in the order they were entered.                          *)
(***************************************************************************)
Entry(kind, name) ==
    [kind |-> kind, name |-> name]

\* main returns an error (or panics) because of `cause`
Fail(how, cause) ==
    /\ pc' = "failed"
    /\ result' = how
    /\ conditions' = conditions \cup {cause}

Enter(state) ==
    visited' = Append(visited, state)

Init ==
    /\ pc = "env"
    /\ visited = <<"Fetching">>
    /\ conditions = {}
    /\ accounts_response = NoBody
    /\ now = 0
    /\ old_inactive_accounts = <<>>
    /\ file = NoFile
    /\ edited = FALSE
    /\ prompted = FALSE
    /\ typed = <<>>
    /\ stdin = <<>>
    /\ line = <<>>
    /\ gate = "none"
    /\ rdr = <<>>
    /\ invocations = <<>>
    /\ log = <<>>
    /\ result = "running"

\* lines 12-17: TFE_TOKEN is read (expect panics when it is not set) and put
\* into the Authorization header (from_str fails on a byte no header may hold)
ReadToken ==
    /\ pc = "env"
    /\ \E token \in {"unset", "not_a_header_value", "usable"} :
          CASE token = "unset" -> Fail("panic", "missing_credential")
            [] token = "not_a_header_value" -> Fail("error", "invalid_credential")
            [] OTHER -> /\ pc' = "fetch"
                        /\ UNCHANGED <<result, conditions>>
    /\ UNCHANGED <<visited, accounts_response, now, old_inactive_accounts, file,
                   edited, prompted, typed, stdin, line, gate, rdr, invocations, log>>

\* what is remembered of an answer for the record of the run
AnswerConditions(answer) ==
    (IF answer.status = "non_2xx" THEN {"non_2xx"} ELSE {})
    \cup (IF answer.json /\ ~answer.body.has_data THEN {"no_data_array"} ELSE {})

\* lines 20-25: send().await? fails when the endpoint cannot be reached,
\* json().await? fails when the body is not JSON; the status of the response
\* is not looked at
Fetch ==
    /\ pc = "fetch"
    /\ \/ /\ Fail("error", "unreachable")
          /\ UNCHANGED <<accounts_response, visited>>
       \/ \E answer \in Answers :
             IF answer.json
             THEN /\ accounts_response' = answer.body
                  /\ conditions' = conditions \cup AnswerConditions(answer)
                  /\ pc' = "filter"
                  /\ Enter("Filtering")
                  /\ UNCHANGED result
             ELSE /\ pc' = "failed"
                  /\ result' = "error"
                  /\ conditions' = conditions \cup AnswerConditions(answer)
                                              \cup {"not_json"}
                  /\ UNCHANGED <<accounts_response, visited>>
    /\ UNCHANGED <<now, old_inactive_accounts, file, edited, prompted, typed,
                   stdin, line, gate, rdr, invocations, log>>

\* lines 27-33: the filter reads the clock once, then the names are printed
Filter ==
    /\ pc = "filter"
    /\ \E utc_now \in NowChoices :
          /\ now' = utc_now
          /\ old_inactive_accounts' = FilterOldInactiveAccounts(accounts_response, utc_now)
    /\ log' = log \o <<Entry("listing", <<>>)>>
                  \o [i \in 1..Len(old_inactive_accounts') |->
                         Entry("account", old_inactive_accounts'[i].name)]
    /\ pc' = "report"
    /\ Enter("Reporting")
    /\ UNCHANGED <<conditions, accounts_response, file, edited, prompted, typed,
                   stdin, line, gate, rdr, invocations, result>>

\* lines 36-38: create_csv fails when the file cannot be created (nothing is
\* written) or when writing or flushing fails (the file was truncated)
Report ==
    /\ pc = "report"
    /\ \E fs \in {"ok", "cannot_create", "cannot_write"} :
          CASE fs = "ok" ->
                 /\ file' = CsvText(old_inactive_accounts)
                 /\ log' = Append(log, Entry("csv_created", <<>>))
                 /\ pc' = "prompt"
                 /\ Enter("AwaitingConfirmation")
                 /\ UNCHANGED <<result, conditions>>
            [] fs = "cannot_create" ->
                 /\ Fail("error", "report_not_created")
                 /\ UNCHANGED <<file, log, visited>>
            [] OTHER ->
                 /\ Fail("error", "report_not_written")
                 /\ file' = <<>>
                 /\ UNCHANGED <<log, visited>>
    /\ UNCHANGED <<accounts_response, now, old_inactive_accounts, edited,
                   prompted, typed, stdin, line, gate, rdr, invocations>>

\* lines 41-42: the prompt is printed and standard output flushed
Prompt ==
    /\ pc = "prompt"
    /\ \E flushed \in BOOLEAN :
          IF flushed
          THEN /\ prompted' = TRUE
               /\ log' = Append(log, Entry("prompt", <<>>))
               /\ pc' = "confirm"
               /\ UNCHANGED <<result, conditions>>
          ELSE /\ Fail("error", "prompt_not_flushed")
               /\ UNCHANGED <<prompted, log>>
    /\ UNCHANGED <<visited, accounts_response, now, old_inactive_accounts, file,
                   edited, typed, stdin, line, gate, rdr, invocations>>

\* While main waits for the answer the operator may edit the report.
OperatorEditsReport ==
    /\ pc = "confirm"
    /\ ~edited
    /\ \E text \in Edits(file) : file' = text
    /\ edited' = TRUE
    /\ UNCHANGED <<pc, visited, conditions, accounts_response, now,
                   old_inactive_accounts, prompted, typed, stdin, line, gate, rdr,
                   invocations, log, result>>

\* lines 44-49: the answer is read and decides between cleanup and skipping
\* (first with the slip of skipping only on false, so that an answer that
\* could not be read proceeds to the cleanup)
ConfirmProceedsOnError ==
    /\ pc = "confirm"
    /\ \E input \in StdinChoices :
          LET r == ShouldPerformCleanup(input)
          IN  /\ typed' = input
              /\ stdin' = r.rest
              /\ line' = r.user_input
              /\ gate' = r.value
              /\ IF r.value = "false"
                 THEN /\ log' = Append(log, Entry("skipped", <<>>))
                      /\ pc' = "skipped"
                      /\ Enter("Skipped")
                 ELSE /\ log' = Append(log, Entry("proceeding", <<>>))
                      /\ pc' = "open"
                      /\ Enter("CleaningUp")
    /\ UNCHANGED <<conditions, accounts_response, now, old_inactive_accounts,
                   file, edited, prompted, rdr, invocations, result>>

Confirm ==
    /\ pc = "confirm"
    /\ \E input \in StdinChoices :
          LET r == ShouldPerformCleanup(input)
          IN  /\ typed' = input
              /\ stdin' = r.rest
              /\ line' = r.user_input
              /\ gate' = r.value
              /\ CASE r.value = "error" ->
                        /\ Fail("error", "answer_not_read")
                        /\ UNCHANGED <<log, visited>>
                   [] r.value = "true" ->
                        /\ log' = Append(log, Entry("proceeding", <<>>))
                        /\ pc' = "open"
                        /\ Enter("CleaningUp")
                        /\ UNCHANGED <<result, conditions>>
                   [] OTHER ->
                        /\ log' = Append(log, Entry("skipped", <<>>))
                        /\ pc' = "skipped"
                        /\ Enter("Skipped")
                        /\ UNCHANGED <<result, conditions>>
    /\ UNCHANGED <<accounts_response, now, old_inactive_accounts, file, edited,
                   prompted, rdr, invocations>>

\* line 94: the report is opened by its path
OpenReport ==
    /\ pc = "open"
    /\ IF file = NoFile
       THEN /\ Fail("error", "report_not_opened")
            /\ UNCHANGED rdr
       ELSE /\ rdr' = Records(file)
            /\ pc' = "rows"
            /\ UNCHANGED <<result, conditions>>
    /\ UNCHANGED <<visited, accounts_response, now, old_inactive_accounts, file,
                   edited, prompted, typed, stdin, line, gate, invocations, log>>

\* lines 96-111, one turn of the loop: the next record is taken (result?),
\* terraform is run for its first field (output()? fails when the command
\* cannot be started) and the outcome is printed
DeleteRow ==
    /\ pc = "rows"
    /\ rdr # <<>>
    /\ LET record == Head(rdr)
           account_name == record.fields[1]
       IN  IF ~record.ok
           THEN /\ Fail("error", "record_not_read")
                /\ UNCHANGED <<invocations, log>>
           ELSE \E outcome \in {"success", "failure", "not_started"} :
                   /\ invocations' = Append(invocations,
                         [name |-> account_name, outcome |-> outcome])
                   /\ CASE outcome = "success" ->
                             /\ log' = log \o <<Entry("deleting", account_name),
                                                Entry("deleted", account_name)>>
                             /\ UNCHANGED <<pc, result, conditions>>
                        [] outcome = "failure" ->
                             /\ log' = log \o <<Entry("deleting", account_name),
                                                Entry("delete_failed", account_name)>>
                             /\ UNCHANGED <<pc, result, conditions>>
                        [] OTHER ->
                             /\ log' = Append(log, Entry("deleting", account_name))
                             /\ Fail("error", "command_not_started")
    /\ rdr' = Tail(rdr)
    /\ UNCHANGED <<visited, accounts_response, now, old_inactive_accounts, file,
                   edited, prompted, typed, stdin, line, gate>>

\* lines 112-114 and 51: no record is left, the cleanup and main return Ok
CleanupReturns ==
    /\ pc = "rows"
    /\ rdr = <<>>
    /\ pc' = "done"
    /\ result' = "ok"
    /\ Enter("Done")
    /\ UNCHANGED <<conditions, accounts_response, now, old_inactive_accounts,
                   file, edited, prompted, typed, stdin, line, gate, rdr,
                   invocations, log>>

\* lines 48 and 51: the cleanup was skipped, main returns Ok
SkipReturns ==
    /\ pc = "skipped"
    /\ pc' = "done"
    /\ result' = "ok"
    /\ Enter("Done")
    /\ UNCHANGED <<conditions, accounts_response, now, old_inactive_accounts,
                   file, edited, prompted, typed, stdin, line, gate, rdr,
                   invocations, log>>

Next ==
    \/ ReadToken
    \/ Fetch
    \/ Filter
    \/ Report
    \/ Prompt
    \/ OperatorEditsReport
    \/ Confirm
    \/ OpenReport
    \/ DeleteRow
    \/ CleanupReturns
    \/ SkipReturns

Spec == Init /\ [][Next]_vars

(***************************************************************************)
(* should_perform_cleanup called on its own, as the tests of lines 198-208 *)
(* call it: with a slice of bytes as the input.                            *)
(***************************************************************************)
GateBytes ==
    {"y", "Y", "n", "e", "s", " ", "\n", BadByte}

InitGate ==
    /\ pc = "gate_call"
    /\ visited = <<>>
    /\ conditions = {}
    /\ accounts_response = NoBody
    /\ now = 0
    /\ old_inactive_accounts = <<>>
    /\ file = NoFile
    /\ edited = FALSE
    /\ prompted = FALSE
    /\ typed \in SeqsUpTo(GateBytes, MaxInputLen)
    /\ stdin = typed
    /\ line = <<>>
    /\ gate = "none"
    /\ rdr = <<>>
    /\ invocations = <<>>
    /\ log = <<>>
    /\ result = "running"

GateCall ==
    /\ pc = "gate_call"
    /\ LET r == ShouldPerformCleanup(stdin)
       IN  /\ stdin' = r.rest
           /\ line' = r.user_input
           /\ gate' = r.value
    /\ pc' = "gate_returned"
    /\ UNCHANGED <<visited, conditions, accounts_response, now,
                   old_inactive_accounts, file, edited, prompted, typed, rdr,
                   invocations, log, result>>

NextGate ==
    GateCall

SpecGate == InitGate /\ [][NextGate]_vars

(***************************************************************************)
(* filter_old_inactive_accounts called on its own, as the test of lines    *)
(* 123-168 calls it: on a parsed response.                                 *)
(***************************************************************************)
FilterAccounts ==
    [name : NameChoices, last_activity_at : StampChoices]

InitFilter ==
    /\ pc = "filter_call"
    /\ visited = <<>>
    /\ conditions = {}
    /\ accounts_response \in
          {NoDataBody} \cup {DataBody(a) : a \in SeqsUpTo(FilterAccounts, MaxAccounts)}
    /\ now = 0
    /\ old_inactive_accounts = <<>>
    /\ file = NoFile
    /\ edited = FALSE
    /\ prompted = FALSE
    /\ typed = <<>>
    /\ stdin = <<>>
    /\ line = <<>>
    /\ gate = "none"
    /\ rdr = <<>>
    /\ invocations = <<>>
    /\ log = <<>>
    /\ result = "running"

FilterCall ==
    /\ pc = "filter_call"
    /\ \E utc_now \in NowChoices :
          /\ now' = utc_now
          /\ old_inactive_accounts' = FilterOldInactiveAccounts(accounts_response, utc_now)
    /\ pc' = "filter_returned"
    /\ UNCHANGED <<visited, conditions, accounts_response, file, edited, prompted,
                   typed, stdin, line, gate, rdr, invocations, log, result>>

NextFilter ==
    FilterCall

SpecFilter == InitFilter /\ [][NextFilter]_vars

(***************************************************************************)
(* Vocabulary of the properties.  The instants of the timestamps above are *)
(* written out, so that the properties do not rest on the parser.          *)
(***************************************************************************)
Entered(state) ==
    \E i \in 1..Len(visited) : visited[i] = state

IsPrefix(s, t) ==
    Len(s) <= Len(t) /\ \A i \in 1..Len(s) : s[i] = t[i]

\* the timestamps that are RFC 3339, and the instant each denotes
DenotesInstant(stamp) ==
    stamp \in {TsOld, TsAtCutoff, TsOffsetOld, TsOffsetRecent}

InstantOf(stamp) ==
    CASE stamp = TsOld -> 1577836800             \* 2020-01-01T00:00:00Z
      [] stamp = TsAtCutoff -> 1696291200        \* 2023-10-03T00:00:00Z
      [] stamp = TsOffsetOld -> 1696291199       \* 2023-10-02T23:59:59Z
      [] stamp = TsOffsetRecent -> 1696294800    \* 2023-10-03T01:00:00Z

\* the account's last activity is a timestamp strictly before now - 90 days
OlderThanCutoff(account, utc_now) ==
    /\ DenotesInstant(account.last_activity_at)
    /\ InstantOf(account.last_activity_at) < utc_now - 90 * 24 * 60 * 60

\* the accounts of data that are older than the cutoff, in the order of data
OldOnes(data, utc_now) ==
    LET old == {i \in 1..Len(data) : OlderThanCutoff(data[i], utc_now)}
        nth(k) == CHOOSE i \in old : Cardinality({j \in old : j <= i}) = k
    IN  [k \in 1..Cardinality(old) |-> data[nth(k)]]

\* the text of an attribute, a missing one being the empty text
TextOf(v) ==
    IF v = Missing THEN <<>> ELSE v

\* the first line of bytes is blanks, one y or Y, blanks, and its end
SaysYes(bytes) ==
    \E i \in 1..Len(bytes) :
       /\ bytes[i] \in {"y", "Y"}
       /\ \A j \in 1..(i - 1) : bytes[j] \in {" ", "\t", "\r"}
       /\ \E e \in i..Len(bytes) :
             /\ \A j \in (i + 1)..e : bytes[j] \in {" ", "\t", "\r"}
             /\ e = Len(bytes) \/ bytes[e + 1] = "\n"

InvokedNames ==
    [i \in 1..Len(invocations) |-> invocations[i].name]

ReportWritten ==
    Entered("AwaitingConfirmation") /\ ~edited

PathCleaningUp ==
    <<"Fetching", "Filtering", "Reporting", "AwaitingConfirmation", "CleaningUp", "Done">>

PathSkipped ==
    <<"Fetching", "Filtering", "Reporting", "AwaitingConfirmation", "Skipped", "Done">>

(***************************************************************************)
(* The properties.                                                         *)
(***************************************************************************)

\* C1: terraform is never run unless should_perform_cleanup returned true in
\* this run, which it does only for an answer that is y or Y between blanks:
\* for every other answer (the empty one and the end of the stream included)
\* and as long as the gate was not reached, no command has been run.
C1_NoDeletionWithoutConsent ==
    invocations # <<>> => (gate = "true" /\ SaysYes(typed))

\* a run that ended after the answer "yes", with two accounts in the report
\* and no command run
C1_Witness ==
    /\ pc = "done"
    /\ typed = <<"y", "e", "s", "\n">>
    /\ gate = "false"
    /\ Len(old_inactive_accounts) = 2
    /\ ~edited
    /\ invocations = <<>>

\* C2: filter_old_inactive_accounts returns exactly the accounts whose last
\* activity is an RFC 3339 timestamp strictly before now - 90 days, in the
\* order of the input and as often as they occur in it; an account at the
\* cutoff or later, or without a timestamp that parses, is left out.
C2_FilterKeepsTheOldInOrder ==
    pc = "filter_returned" =>
       old_inactive_accounts = OldOnes(accounts_response.data, now)

\* the account at the cutoff is left out, the old one that follows it is kept
C2_Witness ==
    /\ pc = "filter_returned"
    /\ now = 1704067200
    /\ accounts_response.data = <<Account(<<"a">>, TsAtCutoff), Account(<<"a">>, TsOld)>>
    /\ old_inactive_accounts = <<Account(<<"a">>, TsOld)>>

\* C3 (as claimed): once the cleanup has begun on the report this run wrote,
\* it ends by returning success, with the command run once for every row, in
\* the order of the file, whatever happened to the rows before, and with a
\* line for every row that tells its name and whether it was deleted.
C3_EveryRowIsAttempted ==
    (Entered("CleaningUp") /\ ~edited /\ pc \in {"done", "failed"}) =>
       LET outcomes == SelectSeq(log, LAMBDA e : e.kind \in {"deleted", "delete_failed"})
       IN  /\ pc = "done"
           /\ result = "ok"
           /\ InvokedNames = [k \in 1..Len(old_inactive_accounts) |->
                                 TextOf(old_inactive_accounts[k].name)]
           /\ [k \in 1..Len(outcomes) |-> outcomes[k].name] = InvokedNames

\* C4 (as claimed): should_perform_cleanup returns a boolean for every input,
\* never an error.
C4_NeverAnError ==
    pc = "gate_returned" => gate \in {"true", "false"}

\* C4 (amended): should_perform_cleanup consumes exactly the first line of
\* its input; it returns an error exactly when that line is not valid UTF-8,
\* true exactly when the line is y or Y between blanks, and false otherwise.
C4_GateReadsOneLine ==
    pc = "gate_returned" =>
       LET n == Len(typed) - Len(stdin)
       IN  /\ n >= 0
           /\ stdin = SubSeq(typed, n + 1, Len(typed))
           /\ \A i \in 1..(n - 1) : typed[i] # "\n"
           /\ n < Len(typed) => (n >= 1 /\ typed[n] = "\n")
           /\ gate \in {"true", "false", "error"}
           /\ gate = "error" <=> (\E i \in 1..n : typed[i] = BadByte)
           /\ gate = "true" <=> SaysYes(typed)

\* the answer " Y " followed by a newline is a yes
C4_Witness ==
    /\ pc = "gate_returned"
    /\ typed = <<" ", "Y", " ", "\n">>
    /\ gate = "true"
    /\ stdin = <<>>

\* C5 (as the test of lines 186-189 states it): the record iterator of a
\* reader opened on the file create_csv wrote yields N + 1 records for N
\* accounts.
C5_IteratorYieldsHeaderAndRows ==
    ReportWritten => Len(Records(file)) = Len(old_inactive_accounts) + 1

\* C6 (as claimed): a run that reached AwaitingConfirmation, prompted the
\* operator and has ended has entered exactly one of CleaningUp and Skipped.
C6_ExactlyOneAfterAwaiting ==
    (Entered("AwaitingConfirmation") /\ prompted /\ pc \in {"done", "failed"}) =>
       (Entered("CleaningUp") # Entered("Skipped"))

\* C6 (amended): the states of a run are entered in the order Fetching,
\* Filtering, Reporting, AwaitingConfirmation, then CleaningUp or Skipped,
\* then Done, none of them twice; CleaningUp is entered exactly when the gate
\* returned true and Skipped exactly when it returned false, so neither is
\* entered when the prompt could not be flushed or the answer not be read;
\* a run that fails stays in the state it failed in, and Done is entered
\* exactly when main returns Ok.
C6_LinearRun ==
    /\ visited # <<>>
    /\ IsPrefix(visited, PathCleaningUp) \/ IsPrefix(visited, PathSkipped)
    /\ Entered("CleaningUp") <=> gate = "true"
    /\ Entered("Skipped") <=> gate = "false"
    /\ Entered("Done") <=> result = "ok"
    /\ pc = "failed" =>
          /\ result \in {"error", "panic"}
          /\ (conditions \cap {"missing_credential", "invalid_credential",
                               "unreachable", "not_json"} # {})
                => visited = <<"Fetching">>
          /\ (conditions \cap {"report_not_created", "report_not_written"} # {})
                => visited = SubSeq(PathSkipped, 1, 3)
          /\ (conditions \cap {"prompt_not_flushed", "answer_not_read"} # {})
                => visited = SubSeq(PathSkipped, 1, 4)

\* the answer could not be read: the run ended in AwaitingConfirmation
C6_Witness ==
    /\ pc = "failed"
    /\ gate = "error"
    /\ visited = <<"Fetching", "Filtering", "Reporting", "AwaitingConfirmation">>

\* C7 (as claimed): a run that met a missing credential, an unreachable
\* endpoint, a response that is not 2xx, a body without a "data" array or a
\* report that cannot be created never prompts the operator, never gets to
\* the confirmation and runs no command.
C7_FatalConditionsAbort ==
    (conditions \cap {"missing_credential", "unreachable", "non_2xx",
                      "no_data_array", "report_not_created"} # {}) =>
       /\ ~prompted
       /\ ~Entered("AwaitingConfirmation")
       /\ invocations = <<>>

\* C8: the report this run wrote holds the header and then one row for each
\* fetched account whose last activity is a timestamp strictly before the
\* cutoff of the filter, and for no other account, in the order of the
\* response; the two fields of a row are the name and the timestamp.
C8_ReportRowsAreTheOldAccounts ==
    ReportWritten =>
       LET old == OldOnes(accounts_response.data, now)
       IN  AllRecords(file) =
              <<HeaderRecord>>
              \o [k \in 1..Len(old) |->
                     <<TextOf(old[k].name), old[k].last_activity_at>>]

\* of two accounts the one without a timestamp is left out, and the name of
\* the other, which holds a comma and a quote, is read back as it was
C8_Witness ==
    /\ pc = "prompt"
    /\ accounts_response.data =
          <<Account(<<"d">>, Missing), Account(<<"b", ",", Quote>>, TsOffsetOld)>>
    /\ AllRecords(file) = <<HeaderRecord, <<<<"b", ",", Quote>>, TsOffsetOld>> >>

\* C9 (as claimed): when the cleanup reads a report whose first record is not
\* the header, or whose records do not all have the two columns, it runs no
\* command and does not return success.
C9_ReportStructureIsChecked ==
    LET records == AllRecords(file)
        wellFormed == /\ records # <<>>
                      /\ records[1] = HeaderRecord
                      /\ \A k \in 1..Len(records) : Len(records[k]) = 2
    IN  (Entered("CleaningUp") /\ file # NoFile /\ ~wellFormed) =>
           (invocations = <<>> /\ pc # "done")

\* C10 (as claimed): an account without a name is not in the result of the
\* filter, and no command is run with an empty name.
C10_MissingNameIsExcluded ==
    /\ \A k \in 1..Len(old_inactive_accounts) : old_inactive_accounts[k].name # Missing
    /\ \A i \in 1..Len(invocations) : invocations[i].name # <<>>

\* C10 (amended): an account without a name is treated as an account with
\* the empty name: it is in the result of the filter exactly when its last
\* activity is a timestamp strictly before the cutoff, it is then written to
\* the report as a row with an empty first field, and a cleanup of that
\* report that returns success has run the command with the empty name for
\* it.
C10_MissingNameIsTheEmptyName ==
    LET data == accounts_response.data
        old == OldOnes(data, now)
        names == [k \in 1..Len(old) |-> TextOf(old[k].name)]
    IN  /\ Entered("Reporting") =>
              \A i \in 1..Len(data) :
                 data[i].name = Missing =>
                    ((\E k \in 1..Len(old_inactive_accounts) :
                         old_inactive_accounts[k] = data[i])
                     <=> OlderThanCutoff(data[i], now))
        /\ ReportWritten =>
              LET records == AllRecords(file)
              IN  /\ Len(records) = Len(old) + 1
                  /\ \A k \in 1..Len(old) : records[k + 1][1] = names[k]
        /\ (pc = "done" /\ gate = "true" /\ ~edited) => InvokedNames = names

\* the account without a name was old: the command was run with the empty name
C10_Witness ==
    /\ pc = "done"
    /\ ~edited
    /\ accounts_response.data = <<Account(Missing, TsOld)>>
    /\ old_inactive_accounts = <<Account(Missing, TsOld)>>
    /\ InvokedNames = << <<>> >>

====
